---- MODULE Spec2Model ----
(***************************************************************************)
(* SQLQueryValidator (src/查询语句的检查.py): the validator instance, its    *)
(* validate(query) method and the five rule methods it calls, over an      *)
(* abstract syntax tree as sqlglot.parse_one returns it.                   *)
(*                                                                         *)
(* A query is a record: its text either fails to parse (kind "bad") or     *)
(* parses to a Select node (kind "select") whose clauses are the fields    *)
(* the rule methods read.  Names are strings, "" is the absent table       *)
(* qualifier or alias; the text of a literal or of an identifier operand   *)
(* is the sequence of its characters' code points.                         *)
(*                                                                         *)
(* A diagnostic is [type, message]: type is the diagnostic kind, message   *)
(* the tuple of identifiers the code interpolates into its message text.   *)
(* The code's "type" strings map to the kinds as follows (the message      *)
(* text tells apart the kinds that share a string):                        *)
(*   语法错误       SyntaxError                                             *)
(*   结构错误       MissingFrom, MissingGroupBy                             *)
(*   GROUP BY不完整 IncompleteGroupBy                                       *)
(*   JOIN 错误      MissingJoinCondition, JoinError                         *)
(*   列不存在       ColumnNotFound                                          *)
(*   对象不存在     UnknownTableReference                                   *)
(*   类型不匹配     TypeMismatch                                            *)
(*   空值比较错误   NullComparisonError                                     *)
(*   误用HAVING     MisusedHaving                                           *)
(*   非法HAVING列   IllegalHavingColumn                                     *)
(*   表不存在       TableNotFound                                           *)
(***************************************************************************)
EXTENDS Integers, Sequences, FiniteSets, TLC

VARIABLES metadata, hashseed, parsed, pc, reads, query, result, marks, memo

vars == <<metadata, hashseed, parsed, pc, reads, query, result, marks, memo>>

(***************************************************************************)
(* Generic helpers: Python's for loops, list concatenation, set iteration. *)
(***************************************************************************)

\* sum(lists, []): the concatenation of a sequence of sequences.
RECURSIVE Concat(_)
Concat(ss) ==
    IF ss = <<>> THEN <<>> ELSE Head(ss) \o Concat(Tail(ss))

\* The set of the elements of a sequence.
Range(s) == {s[i] : i \in DOMAIN s}

\* Every identifier of the modelled queries and catalogs.
Names ==
    <<"", "users", "usage_records", "devices", "ghost", "u", "ur", "d", "v",
      "user_id", "username", "device_id", "device_name", "start_time",
      "age", "uid", "n", "*", "u.user_id">>

\* The sequences that list every element of S once: the orders in which
\* iterating a Python set can yield its elements.
Orders(S) == {o \in [1..Cardinality(S) -> S] : Range(o) = S}

\* One order of S: the only one when S has at most one element.
BaseOrder(S) == CHOOSE o \in Orders(S) : TRUE

\* Iteration order of a Python set of strings.  It follows from the hashes
\* of the strings, which the process's hash seed fixes, and from the way
\* the set was built: any order can come out, two sets are ordered
\* independently, and within one process the set a statement builds from
\* a tree keeps its order.  seed maps <<site, p>>, for the sets of two or
\* more elements the process has built at that site from the tree p, to
\* the order it gave them.
SetOrder(site, p, S, seed) ==
    IF <<site, p>> \in DOMAIN seed THEN seed[<<site, p>>] ELSE BaseOrder(S)

\* The seeds that extend seed by an order of S, if S has two or more
\* elements and no order yet.
Seeded(seed, site, p, S) ==
    IF Cardinality(S) < 2 \/ <<site, p>> \in DOMAIN seed THEN {seed}
    ELSE {seed @@ (<<site, p>> :> o) : o \in Orders(S)}

\* list(set(names)) for bare names.
NameOrder(site, p, S, seed) == SetOrder(site, p, S, seed)

(***************************************************************************)
(* The schema catalog self.metadata: a dict table -> (dict column -> type) *)
(* in insertion order.  A data_type is the tuple of its words, so that     *)
(* "character varying" is <<"character", "varying">>.                      *)
(***************************************************************************)

HasTable(md, t) == \E i \in DOMAIN md : md[i].name = t

TableColumns(md, t) ==
    LET i == CHOOSE k \in DOMAIN md : md[k].name = t IN md[i].columns

\* table_name in self.metadata and col_name in self.metadata[table_name]
HasColumn(md, t, c) ==
    /\ HasTable(md, t)
    /\ \E j \in DOMAIN TableColumns(md, t) : TableColumns(md, t)[j].name = c

\* The dict {column: data_type} flattened over all tables: a later table's
\* entry overwrites an earlier one's.  <<>> stands for a missing key.
column_types(md, c) ==
    LET all  == Concat([i \in DOMAIN md |-> md[i].columns])
        hits == SelectSeq(all, LAMBDA e : e.name = c)
    IN  IF hits = <<>> THEN <<>> ELSE hits[Len(hits)].type

\* all_columns of _validate_tables_and_columns.
all_columns(md) ==
    {e.name : e \in Range(Concat([i \in DOMAIN md |-> md[i].columns]))}

\* str.startswith(prefix) on a data_type whose first word is the prefix.
startswith(type, prefix) == type # <<>> /\ type[1] = prefix

(***************************************************************************)
(* AST nodes.                                                              *)
(***************************************************************************)

\* A column reference.
Col(t, n) == [table |-> t, name |-> n]

\* A select-list expression; cls is its sqlglot class, inner the class of
\* expr.this when cls is Alias, text is str(expr) of any other expression,
\* cols the Column nodes found anywhere in it and agg whether an AggFunc
\* node is found anywhere in it.
ColumnE(t, n) ==
    [cls |-> "Column", inner |-> "", table |-> t, name |-> n, alias |-> "",
     text |-> "", cols |-> <<Col(t, n)>>, agg |-> FALSE]

AliasE(a, e) ==
    [cls |-> "Alias", inner |-> e.cls, table |-> e.table, name |-> e.name,
     alias |-> a, text |-> "", cols |-> e.cols, agg |-> e.agg]

\* An aggregate call on column t.n; n = "" is COUNT(*).
AggE(t, n) ==
    [cls |-> "AggFunc", inner |-> "", table |-> t, name |-> n, alias |-> "",
     text |-> "", cols |-> IF n = "" THEN <<>> ELSE <<Col(t, n)>>,
     agg |-> TRUE]

\* Any other expression, such as age + 1 or COUNT(*) + 1, with the columns
\* it holds and whether it holds an aggregate call.
OtherE(txt, cols, agg) ==
    [cls |-> "Other", inner |-> "", table |-> "", name |-> "", alias |-> "",
     text |-> txt, cols |-> cols, agg |-> agg]

\* A table reference of FROM or JOIN.
TableRef(n, a) == [name |-> n, alias |-> a]

\* A JOIN: cond is "none", "on" or "using"; on is the columns of the ON
\* clause in find_all order, using the identifiers of USING.
JoinE(n, a, k, c, oncols, usingcols) ==
    [name |-> n, alias |-> a, kind |-> k, cond |-> c, on |-> oncols,
     using |-> usingcols]

\* Operands of a binary node of WHERE.
ColOperand(t, n) ==
    [cls |-> "Column", table |-> t, name |-> n, is_string |-> FALSE,
     this |-> <<>>]

LitOperand(s, txt) ==
    [cls |-> "Literal", table |-> "", name |-> "", is_string |-> s,
     this |-> txt]

NullOperand ==
    [cls |-> "Null", table |-> "", name |-> "", is_string |-> FALSE,
     this |-> <<>>]

\* A signed number such as -5: an exp.Neg node around the Literal, which is
\* not itself an exp.Literal; this holds the code points of the digits.
NegOperand(txt) ==
    [cls |-> "Neg", table |-> "", name |-> "", is_string |-> FALSE,
     this |-> txt]

\* An Identifier node; this holds the code points of its name.
IdentOperand(txt) ==
    [cls |-> "Identifier", table |-> "", name |-> "", is_string |-> FALSE,
     this |-> txt]

\* A binary node: op is the operator as written in the query text.
Binary(l, o, r) == [left |-> l, op |-> o, right |-> r]

\* A column reference of HAVING; inAgg: its parent is an aggregate call.
HavingCol(t, n, a) == [table |-> t, name |-> n, inAgg |-> a]

\* f"{col.table}.{col.name}" if col.table else col.name
QName(c) == IF c.table # "" THEN c.table \o "." \o c.name ELSE c.name

\* table_ref.alias or table_name; join.alias_or_name
alias_or_name(ref) == IF ref.alias # "" THEN ref.alias ELSE ref.name

(***************************************************************************)
(* The result dict and its diagnostics.                                    *)
(***************************************************************************)

NewResult == [is_valid |-> TRUE, errors |-> <<>>, suggestions |-> <<>>]

Diag(type, message) == [type |-> type, message |-> message]

\* result["errors"].append(d) without the assignment to is_valid.
AddErrorMutant(res, d) == [res EXCEPT !.errors = Append(@, d)]

\* result["is_valid"] = False; result["errors"].append(d)
AddError(res, d) ==
    [res EXCEPT !.is_valid = FALSE, !.errors = Append(@, d)]

RECURSIVE AddErrors(_, _)
AddErrors(res, ds) ==
    IF ds = <<>> THEN res ELSE AddErrors(AddError(res, Head(ds)), Tail(ds))

(***************************************************************************)
(* Queries.  A query text that sqlglot rejects has kind "bad"; one that it *)
(* parses to a Select node has kind "select".  NoAst is self.parsed = None.*)
(***************************************************************************)

NoWhere == [present |-> FALSE, conds |-> <<>>]

NoGroup == [present |-> FALSE, expressions |-> <<>>]

NoHaving == [present |-> FALSE, columns |-> <<>>, hasAgg |-> FALSE]

\* SELECT exprs FROM from joins WHERE w GROUP BY g HAVING h; x: an aggregate
\* call without column arguments occurs outside the select list and
\* HAVING (as in ORDER BY COUNT(*)).
Select(exprs, from, joins, w, g, h, x) ==
    [kind |-> "select", text |-> "", expressions |-> exprs, from |-> from,
     joins |-> joins, where |-> w, group |-> g, having |-> h, extraAgg |-> x]

\* A text the parser rejects; txt tells two such texts apart.
BadQuery(txt) ==
    [kind |-> "bad", text |-> txt, expressions |-> <<>>, from |-> <<>>,
     joins |-> <<>>, where |-> NoWhere, group |-> NoGroup,
     having |-> NoHaving, extraAgg |-> FALSE]

\* self.parsed = None
NoAst ==
    [kind |-> "none", text |-> "", expressions |-> <<>>, from |-> <<>>,
     joins |-> <<>>, where |-> NoWhere, group |-> NoGroup,
     having |-> NoHaving, extraAgg |-> FALSE]

(***************************************************************************)
(* R1: _validate_select_statement.                                         *)
(***************************************************************************)

\* The expression holds an aggregate call.
IsAggExpr(e) == e.agg

\* list(self.parsed.find_all(exp.AggFunc)) is non-empty: the search covers
\* the whole tree, not the select list alone.
aggregates(p) ==
    \/ \E i \in DOMAIN p.expressions : IsAggExpr(p.expressions[i])
    \/ (p.having.present /\ p.having.hasAgg)
    \/ p.extraAgg

\* The select-list expressions that are themselves Column nodes.
selected_columns(p) == SelectSeq(p.expressions, LAMBDA e : e.cls = "Column")

group_by_columns(p) == IF p.group.present THEN p.group.expressions ELSE <<>>

missing_columns(p) ==
    {QName(c) : c \in Range(selected_columns(p))}
        \ {QName(c) : c \in Range(group_by_columns(p))}

\* The set whose elements the rule joins into its message, if it does.
select_iterated(p) ==
    IF p.group.present /\ selected_columns(p) # <<>>
    THEN missing_columns(p) ELSE {}

\* The tree with the select list of pe (line 95) and the GROUP BY of pg
\* (line 99).
Grouped(pe, pg) == [pe EXCEPT !.group = pg.group]

\* The diagnostics of R1 when its reads of self.parsed gave pf (line 85),
\* pa (line 93), the select list and GROUP BY of p (lines 95 and 99) and
\* pg (line 107).
SelectDiagsAt(pf, pa, p, pg, seed) ==
    (IF pf.from = <<>> THEN <<Diag("MissingFrom", <<>>)>> ELSE <<>>)
    \o (IF aggregates(pa) /\ selected_columns(p) # <<>> /\ ~pg.group.present
        THEN <<Diag("MissingGroupBy", <<>>)>> ELSE <<>>)
    \o (IF p.group.present /\ selected_columns(p) # <<>>
           /\ missing_columns(p) # {}
        THEN <<Diag("IncompleteGroupBy",
                    SetOrder("select", p, missing_columns(p), seed))>>
        ELSE <<>>)

\* R1 when every read of self.parsed gives the same tree.
SelectDiags(p, seed) == SelectDiagsAt(p, p, p, p, seed)

validate_select_statement(p, seed, res) == AddErrors(res, SelectDiags(p, seed))

(***************************************************************************)
(* R2: _validate_joins.                                                    *)
(***************************************************************************)

base_tables(p) ==
    [i \in DOMAIN p.from |->
        [name |-> p.from[i].name, alias |-> alias_or_name(p.from[i])]]

\* The (alias, name) bindings in the order the code stores them in
\* table_aliases: FROM tables, then every JOIN.
alias_entries(p) ==
    base_tables(p)
    \o [k \in DOMAIN p.joins |->
           [name |-> p.joins[k].name, alias |-> alias_or_name(p.joins[k])]]

\* real_table: table_aliases[col_table] if col_table is a key, else col_table.
real_table(p, col_table) ==
    LET hits == SelectSeq(alias_entries(p), LAMBDA e : e.alias = col_table)
    IN  IF hits = <<>> THEN col_table ELSE hits[Len(hits)].name

\* join_tables of the k-th JOIN: rebuilt for every join from base_tables
\* plus the join's own table.
join_tables(p, k) ==
    base_tables(p)
    \o <<[name |-> p.joins[k].name, alias |-> alias_or_name(p.joins[k])]>>

on_clause(j) == j.cond = "on"

using_columns(j) == IF j.cond = "using" THEN j.using ELSE <<>>

\* The condition test with the USING half dropped.
lacks_condition_mutant(j) == ~on_clause(j)

\* not on_clause and not using_columns
lacks_condition(j) == ~on_clause(j) /\ using_columns(j) = <<>>

\* valid_tables of one USING column.
valid_tables(md, jt, col_name) ==
    LET hits == SelectSeq(jt, LAMBDA ti : HasColumn(md, ti.name, col_name))
    IN  [i \in DOMAIN hits |-> hits[i].alias]

UsingDiags(md, jt, col_name) ==
    LET vt == valid_tables(md, jt, col_name) IN
    IF vt = <<>>
    THEN <<Diag("ColumnNotFound",
                <<"USING", col_name>> \o [i \in DOMAIN jt |-> jt[i].alias])>>
    ELSE IF Len(vt) < 2
    THEN <<Diag("JoinError", <<col_name, vt[1]>>)>>
    ELSE <<>>

OnDiags(md, p, jt, column) ==
    LET rt == real_table(p, column.table) IN
    IF ~(\E i \in DOMAIN jt : jt[i].name = rt)
    THEN <<Diag("UnknownTableReference", <<column.table>>)>>
    ELSE IF HasColumn(md, rt, column.name)
    THEN <<>>
    ELSE <<Diag("ColumnNotFound", <<rt, column.name>>)>>

\* One iteration of "for join in joins".
JoinDiags(md, p, k) ==
    LET j  == p.joins[k]
        jt == join_tables(p, k)
    IN  IF lacks_condition(j)
        THEN <<Diag("MissingJoinCondition", <<j.kind>>)>>
        ELSE IF using_columns(j) # <<>>
        THEN Concat([i \in DOMAIN j.using |-> UsingDiags(md, jt, j.using[i])])
        ELSE IF on_clause(j)
        THEN Concat([i \in DOMAIN j.on |-> OnDiags(md, p, jt, j.on[i])])
        ELSE <<>>

JoinsDiags(md, p) == Concat([k \in DOMAIN p.joins |-> JoinDiags(md, p, k)])

validate_joins(md, p, res) == AddErrors(res, JoinsDiags(md, p))

\* The tree R2 works on when its reads of self.parsed gave pj (joins, line
\* 133) and pf (FROM, line 134).
JoinsView(pj, pf) == [pj EXCEPT !.from = pf.from]

(***************************************************************************)
(* R3: _validate_where.                                                    *)
(***************************************************************************)

\* The code points str.isdigit accepts: the 808 characters of Unicode 15
\* with the digit property (decimal digits of every script, superscript,
\* subscript, circled and other digits), as ranges first..last.  The
\* f-string of line 186 needs Python 3.12 or later, whose character
\* database is Unicode 15.
DigitRanges ==
    <<<<48, 57>>, <<178, 179>>, <<185, 185>>, <<1632, 1641>>,
      <<1776, 1785>>, <<1984, 1993>>, <<2406, 2415>>, <<2534, 2543>>,
      <<2662, 2671>>, <<2790, 2799>>, <<2918, 2927>>, <<3046, 3055>>,
      <<3174, 3183>>, <<3302, 3311>>, <<3430, 3439>>, <<3558, 3567>>,
      <<3664, 3673>>, <<3792, 3801>>, <<3872, 3881>>, <<4160, 4169>>,
      <<4240, 4249>>, <<4969, 4977>>, <<6112, 6121>>, <<6160, 6169>>,
      <<6470, 6479>>, <<6608, 6618>>, <<6784, 6793>>, <<6800, 6809>>,
      <<6992, 7001>>, <<7088, 7097>>, <<7232, 7241>>, <<7248, 7257>>,
      <<8304, 8304>>, <<8308, 8313>>, <<8320, 8329>>, <<9312, 9320>>,
      <<9332, 9340>>, <<9352, 9360>>, <<9450, 9450>>, <<9461, 9469>>,
      <<9471, 9471>>, <<10102, 10110>>, <<10112, 10120>>, <<10122, 10130>>,
      <<42528, 42537>>, <<43216, 43225>>, <<43264, 43273>>,
      <<43472, 43481>>, <<43504, 43513>>, <<43600, 43609>>,
      <<44016, 44025>>, <<65296, 65305>>, <<66720, 66729>>,
      <<68160, 68163>>, <<68912, 68921>>, <<69216, 69224>>,
      <<69714, 69722>>, <<69734, 69743>>, <<69872, 69881>>,
      <<69942, 69951>>, <<70096, 70105>>, <<70384, 70393>>,
      <<70736, 70745>>, <<70864, 70873>>, <<71248, 71257>>,
      <<71360, 71369>>, <<71472, 71481>>, <<71904, 71913>>,
      <<72016, 72025>>, <<72784, 72793>>, <<73040, 73049>>,
      <<73120, 73129>>, <<73552, 73561>>,
      <<92768, 92777>>, <<92864, 92873>>,
      <<93008, 93017>>, <<120782, 120831>>, <<123200, 123209>>,
      <<123632, 123641>>, <<124144, 124153>>,
      <<125264, 125273>>, <<127232, 127242>>,
      <<130032, 130041>>>>

Digits == UNION {r[1]..r[2] : r \in Range(DigitRanges)}

\* str.isdigit()
isdigit(s) == s # <<>> /\ \A i \in DOMAIN s : s[i] \in Digits

\* str.replace(ch, '', 1): the first occurrence of ch removed.
RECURSIVE replace_first(_, _)
replace_first(s, ch) ==
    IF s = <<>> THEN <<>>
    ELSE IF Head(s) = ch THEN Tail(s)
    ELSE <<Head(s)>> \o replace_first(Tail(s), ch)

\* condition.type: sqlglot's Expression.type is the node's inferred data
\* type, which parse_one leaves unset (None) on every node; it is not the
\* operator of the comparison.
condition_type(c) == "None"

\* The spellings of NULL: right.name.upper() == "NULL" holds for a name of
\* four characters, each N or n (78, 110), U or u (85, 117), L or l (76,
\* 108) by position; no other character's uppercase form is made of the
\* letters N, U and L.
NullSpellings == <<{78, 110}, {85, 117}, {76, 108}, {76, 108}>>

upper_is_null(name) ==
    /\ Len(name) = Len(NullSpellings)
    /\ \A i \in DOMAIN name : name[i] \in NullSpellings[i]

\* isinstance(right, exp.Null), or an Identifier whose name.upper() is NULL
is_null_value(c) ==
    \/ c.right.cls = "Null"
    \/ (c.right.cls = "Identifier" /\ upper_is_null(c.right.this))

TypeDiags(md, c) ==
    LET column_type == column_types(md, c.left.name) IN
    IF /\ startswith(column_type, "integer")
       /\ c.right.is_string
       /\ ~isdigit(replace_first(c.right.this, 46))
    THEN <<Diag("TypeMismatch", <<"numeric", c.left.name>> \o c.right.this)>>
    ELSE IF startswith(column_type, "character") /\ ~c.right.is_string
    THEN <<Diag("TypeMismatch", <<"string", c.left.name>>)>>
    ELSE <<>>

NullDiags(c) ==
    IF is_null_value(c) /\ condition_type(c) \notin {"IS", "IS NOT"}
    THEN <<Diag("NullComparisonError", <<condition_type(c)>>)>>
    ELSE <<>>

\* One iteration of "for condition in where_clause.find_all(exp.Binary)".
ConditionDiags(md, c) ==
    IF c.left.cls = "Column" /\ c.right.cls = "Literal"
    THEN IF column_types(md, c.left.name) = <<>>
         THEN <<>>
         ELSE TypeDiags(md, c) \o NullDiags(c)
    ELSE NullDiags(c)

WhereDiags(md, p) ==
    IF ~p.where.present THEN <<>>
    ELSE Concat([i \in DOMAIN p.where.conds |->
                    ConditionDiags(md, p.where.conds[i])])

validate_where(md, p, res) == AddErrors(res, WhereDiags(md, p))

(***************************************************************************)
(* R4: _validate_having.                                                   *)
(***************************************************************************)

\* What one select-list expression adds to select_columns.
Exposed(e) ==
    LET column_names ==
            {e.name} \cup (IF e.table # "" THEN {QName(e)} ELSE {})
    IN  IF e.cls = "Alias"
        THEN {e.alias}
                 \cup (IF e.inner = "Column" THEN column_names ELSE {})
        ELSE IF e.cls = "Column" THEN column_names
        ELSE IF e.cls = "AggFunc" THEN {}
        ELSE IF e.alias # "" THEN {e.alias}
        ELSE {e.text}

\* select_columns when the loop over self.parsed.selects has handled the
\* first i expressions.
select_columns(p, i) == UNION {Exposed(p.expressions[k]) : k \in 1..i}

HavingColumnDiags(sc, column) ==
    IF column.inAgg THEN <<>>
    ELSE IF QName(column) \notin sc /\ column.name \notin sc
    THEN <<Diag("IllegalHavingColumn", <<QName(column)>>)>>
    ELSE <<>>

\* The loop over the HAVING columns: it is nested in the loop over the
\* select list and runs once per select-list expression, against the
\* select_columns gathered up to that expression.
HavingPass(p, i) ==
    Concat([k \in DOMAIN p.having.columns |->
               HavingColumnDiags(select_columns(p, i), p.having.columns[k])])

HavingDiags(p) ==
    IF ~p.having.present THEN <<>>
    ELSE (IF ~p.group.present /\ ~p.having.hasAgg
          THEN <<Diag("MisusedHaving", <<>>)>> ELSE <<>>)
         \o Concat([i \in DOMAIN p.expressions |-> HavingPass(p, i)])

\* The tree R4 works on when its reads of self.parsed gave ph (HAVING,
\* line 296), pg (GROUP BY, line 300) and ps (select list, line 311).
HavingView(ph, pg, ps) ==
    [ph EXCEPT !.group = pg.group, !.expressions = ps.expressions]

\* The HAVING rule skipped when an earlier rule has reported.
validate_having_mutant(p, res) ==
    IF res.is_valid THEN AddErrors(res, HavingDiags(p)) ELSE res

validate_having(p, res) == AddErrors(res, HavingDiags(p))

(***************************************************************************)
(* R5: _extract_tables_and_columns, _validate_tables_and_columns.          *)
(***************************************************************************)

\* The table extraction that leaves out the tables of JOINs.
extract_tables_mutant(p) == {p.from[i].name : i \in DOMAIN p.from}

extract_tables(p) ==
    {p.from[i].name : i \in DOMAIN p.from}
        \cup {p.joins[k].name : k \in DOMAIN p.joins}

\* The names of all Column nodes of the tree; the identifiers of USING and
\* the * of COUNT(*) are not Column nodes.
extract_columns(p) ==
    UNION {{c.name : c \in Range(e.cols)} : e \in Range(p.expressions)}
        \cup UNION {{c.name : c \in Range(p.joins[k].on)} :
                       k \in {k \in DOMAIN p.joins : on_clause(p.joins[k])}}
        \cup {o.name : o \in {o \in UNION {{c.left, c.right} :
                                    c \in Range(p.where.conds)} :
                                 o.cls = "Column"}}
        \cup {c.name : c \in Range(p.group.expressions)}
        \cup {c.name : c \in Range(p.having.columns)}

\* The tree the tables are extracted from when the reads of self.parsed
\* gave pf (FROM, line 359) and pj (joins, line 367).
TablesView(pf, pj) == [pj EXCEPT !.from = pf.from]

\* The diagnostics of R5 when the tables are extracted from pt and the
\* columns from pcol (line 375).
TablesColumnsDiagsAt(md, pt, pcol, seed) ==
    LET tables  == NameOrder("tables", pt, extract_tables(pt), seed)
        columns == NameOrder("columns", pcol, extract_columns(pcol), seed)
    IN  Concat([i \in DOMAIN tables |->
                   IF ~HasTable(md, tables[i])
                   THEN <<Diag("TableNotFound", <<tables[i]>>)>> ELSE <<>>])
        \o Concat([i \in DOMAIN columns |->
                      IF columns[i] \notin all_columns(md)
                      THEN <<Diag("ColumnNotFound", <<columns[i]>>)>>
                      ELSE <<>>])

\* R5 when every read of self.parsed gives the same tree.
TablesColumnsDiags(md, p, seed) == TablesColumnsDiagsAt(md, p, p, seed)

validate_tables_and_columns(md, p, seed, res) ==
    AddErrors(res, TablesColumnsDiags(md, p, seed))

(***************************************************************************)
(* Catalogs and queries of the smart-home database the tool is run on.     *)
(***************************************************************************)

ColumnDef(n, t) == [name |-> n, type |-> t]

\* The catalog _load_metadata reads from information_schema for three
\* tables of the schema of src/录入关系、系统重置.py, with two or three of
\* the columns of each.
SmartHome ==
    <<[name |-> "users",
       columns |-> <<ColumnDef("user_id", <<"integer">>),
                     ColumnDef("username", <<"character", "varying">>)>>],
      [name |-> "usage_records",
       columns |-> <<ColumnDef("user_id", <<"integer">>),
                     ColumnDef("device_id", <<"character", "varying">>),
                     ColumnDef("start_time",
                               <<"timestamp", "without", "time", "zone">>)>>],
      [name |-> "devices",
       columns |-> <<ColumnDef("device_id", <<"character", "varying">>),
                     ColumnDef("device_name", <<"character", "varying">>)>>]>>

\* self.metadata after __init__: {} without db_config or when the
\* connection fails, the whole catalog when loading succeeds, and the
\* tables loaded so far when a query of the loop of lines 36-43 fails:
\* line 43 stores each table as soon as its columns are read and the
\* except of line 50 keeps what was stored.  The query of lines 29-33 has
\* no ORDER BY, so the tables come in any order the database gives them:
\* the catalogs are the beginnings of every order of the tables.
Catalogs ==
    {SubSeq(o, 1, n) : o \in Orders(Range(SmartHome)),
                       n \in 0..Len(SmartHome)}

MaxSelects == 2

MaxJoins == 2

MaxConds == 2

\* The sequences over S of length lo..hi.
SeqsOf(S, lo, hi) == UNION {[1..n -> S] : n \in lo..hi}

FromUsers == <<TableRef("users", "u")>>

SelExprs ==
    {ColumnE("u", "user_id"), ColumnE("", "username"),
     AliasE("uid", ColumnE("", "user_id")), AggE("", ""),
     AliasE("n", AggE("u", "user_id")),
     OtherE("user_id + 1", <<Col("", "user_id")>>, FALSE),
     OtherE("COUNT(*) + 1", <<>>, TRUE)}

Groups ==
    {NoGroup,
     [present |-> TRUE, expressions |-> <<Col("u", "user_id")>>],
     [present |-> TRUE,
      expressions |-> <<Col("u", "user_id"), Col("", "username")>>]}

Havings ==
    {NoHaving,
     [present |-> TRUE, hasAgg |-> FALSE,
      columns |-> <<HavingCol("u", "user_id", FALSE)>>],
     [present |-> TRUE, hasAgg |-> FALSE,
      columns |-> <<HavingCol("", "username", FALSE)>>],
     [present |-> TRUE, hasAgg |-> TRUE,
      columns |-> <<HavingCol("", "user_id", TRUE)>>],
     [present |-> TRUE, hasAgg |-> FALSE,
      columns |-> <<HavingCol("", "age", FALSE)>>],
     [present |-> TRUE, hasAgg |-> TRUE,
      columns |-> <<HavingCol("u", "user_id", FALSE),
                    HavingCol("", "age", FALSE),
                    HavingCol("", "username", TRUE)>>]}

JoinSet ==
    {JoinE("usage_records", "ur", "LEFT", "using", <<>>, <<"user_id">>),
     JoinE("devices", "d", "LEFT", "using", <<>>, <<"device_id">>),
     JoinE("usage_records", "ur", "", "using", <<>>, <<"device_name">>),
     JoinE("usage_records", "ur", "", "using", <<>>, <<"username">>),
     JoinE("usage_records", "ur", "", "none", <<>>, <<>>),
     JoinE("devices", "d", "CROSS", "none", <<>>, <<>>),
     JoinE("usage_records", "ur", "", "on",
           <<Col("u", "user_id"), Col("ur", "user_id")>>, <<>>),
     JoinE("devices", "d", "", "on",
           <<Col("ur", "device_id"), Col("d", "device_id")>>, <<>>),
     JoinE("devices", "d", "", "on",
           <<Col("u", "device_id"), Col("d", "device_id")>>, <<>>),
     JoinE("users", "v", "", "on",
           <<Col("u", "user_id"), Col("v", "user_id")>>, <<>>),
     JoinE("ghost", "", "", "on",
           <<Col("u", "user_id"), Col("ghost", "user_id")>>, <<>>),
     JoinE("usage_records", "ur", "", "on",
           <<Col("", "user_id"), Col("ur", "age")>>, <<>>)}

\* The columns compared in WHERE: an integer, a character and a timestamp
\* column of the catalog and a column absent from it.
WhereColumns ==
    {ColOperand("", "user_id"), ColOperand("u", "username"),
     ColOperand("", "start_time"), ColOperand("", "age")}

\* The literals compared with every column: 'ab', '1.5', '1.2.3', '5²'
\* (SUPERSCRIPT TWO), 5 and -5.
WhereLiterals ==
    {LitOperand(TRUE, <<97, 98>>), LitOperand(TRUE, <<49, 46, 53>>),
     LitOperand(TRUE, <<49, 46, 50, 46, 51>>),
     LitOperand(TRUE, <<53, 178>>), LitOperand(FALSE, <<53>>),
     NegOperand(<<53>>)}

\* The comparisons of WHERE: column = literal; user_id = '٤.５' (ARABIC-INDIC
\* DIGIT FOUR, FULLWIDTH DIGIT FIVE); the literal on the left, 'ab' =
\* user_id and 5 = u.username; and comparisons with NULL and with the
\* identifier Null.
CondSet ==
    {Binary(l, "=", r) : l \in WhereColumns, r \in WhereLiterals}
        \cup {Binary(ColOperand("", "user_id"), "=",
                     LitOperand(TRUE, <<1636, 46, 65301>>)),
              Binary(LitOperand(TRUE, <<97, 98>>), "=",
                     ColOperand("", "user_id")),
              Binary(LitOperand(FALSE, <<53>>), "=",
                     ColOperand("u", "username"))}
        \cup {Binary(ColOperand("", "user_id"), o, NullOperand) :
                 o \in {"=", "<>", "IS", "IS NOT"}}
        \cup {Binary(ColOperand("u", "username"), "=",
                     IdentOperand(<<78, 117, 108, 108>>))}

\* Queries varying the select list, GROUP BY and HAVING, and the same
\* without HAVING but with an aggregate call outside the select list.  The
\* select list can be empty (SELECT FROM users ...): the parser accepts it
\* and self.parsed.expressions is then [].
SelectFamily ==
    {Select(e, FromUsers, <<>>, NoWhere, g, h, FALSE) :
        e \in SeqsOf(SelExprs, 0, MaxSelects), g \in Groups, h \in Havings}
    \cup {Select(e, FromUsers, <<>>, NoWhere, g, NoHaving, TRUE) :
             e \in SeqsOf(SelExprs, 0, MaxSelects), g \in Groups}

\* Queries without a FROM clause.
FromFamily ==
    {Select(e, <<>>, <<>>, NoWhere, NoGroup, NoHaving, FALSE) :
        e \in SeqsOf(SelExprs, 1, MaxSelects)}

\* Queries varying the JOIN chain.
JoinFamily ==
    {Select(<<ColumnE("u", "user_id")>>, FromUsers, j, NoWhere, NoGroup,
            NoHaving, FALSE) : j \in SeqsOf(JoinSet, 0, MaxJoins)}

\* Queries varying the WHERE clause.
WhereFamily ==
    {Select(<<ColumnE("u", "user_id")>>, FromUsers, <<>>,
            [present |-> TRUE, conds |-> c], NoGroup, NoHaving, FALSE) :
        c \in SeqsOf(CondSet, 1, MaxConds)}

\* Queries varying the FROM table, one of them absent from the catalog.
TableFamily ==
    {Select(<<ColumnE("", "device_id")>>, <<TableRef(t, "")>>, <<>>, NoWhere,
            NoGroup, NoHaving, FALSE) :
        t \in {"users", "devices", "ghost"}}

\* Queries that break several rules at once: an aggregate call next to a
\* column without GROUP BY, with or without a condition-less JOIN of a
\* table absent from the catalog, a WHERE comparison with NULL and a HAVING
\* on a column that is not selected.
MixedFamily ==
    {Select(<<ColumnE("", "username"), AggE("", "")>>, FromUsers, j, w,
            NoGroup, h, FALSE) :
        j \in {<<>>, <<JoinE("ghost", "", "", "none", <<>>, <<>>)>>},
        w \in {NoWhere,
               [present |-> TRUE,
                conds |-> <<Binary(ColOperand("", "user_id"), "=",
                                   NullOperand)>>]},
        h \in {NoHaving,
               [present |-> TRUE, hasAgg |-> FALSE,
                columns |-> <<HavingCol("", "age", FALSE)>>]}}

\* Queries whose diagnostics show the iteration order of a set:
\*   SELECT u.user_id, username, device_id FROM users u GROUP BY age
\*   SELECT age, uid FROM ghost JOIN v USING(n)
OrderFamily ==
    {Select(<<ColumnE("u", "user_id"), ColumnE("", "username"),
              ColumnE("", "device_id")>>, FromUsers, <<>>, NoWhere,
            [present |-> TRUE, expressions |-> <<Col("", "age")>>],
            NoHaving, FALSE),
     Select(<<ColumnE("", "age"), ColumnE("", "uid")>>,
            <<TableRef("ghost", "")>>,
            <<JoinE("v", "", "", "using", <<>>, <<"n">>)>>, NoWhere, NoGroup,
            NoHaving, FALSE)}

\* Queries with the quoted identifier "u.user_id", a bare column whose name
\* is the text of the qualified name u.user_id:
\*   SELECT u.user_id FROM users u GROUP BY "u.user_id"
\*   SELECT u.user_id FROM users u GROUP BY u.user_id HAVING "u.user_id" > 0
\*   SELECT "u.user_id", username FROM users u GROUP BY u.user_id
QuotedFamily ==
    {Select(<<ColumnE("u", "user_id")>>, FromUsers, <<>>, NoWhere,
            [present |-> TRUE, expressions |-> <<Col("", "u.user_id")>>],
            NoHaving, FALSE),
     Select(<<ColumnE("u", "user_id")>>, FromUsers, <<>>, NoWhere,
            [present |-> TRUE, expressions |-> <<Col("u", "user_id")>>],
            [present |-> TRUE, hasAgg |-> FALSE,
             columns |-> <<HavingCol("", "u.user_id", FALSE)>>], FALSE),
     Select(<<ColumnE("", "u.user_id"), ColumnE("", "username")>>, FromUsers,
            <<>>, NoWhere,
            [present |-> TRUE, expressions |-> <<Col("u", "user_id")>>],
            NoHaving, FALSE)}

BadQueries == {BadQuery("SELECT * FROM ("), BadQuery("SELECT * FROM users WHERE (")}

AllQueries ==
    BadQueries \cup SelectFamily \cup FromFamily \cup TableFamily
        \cup JoinFamily \cup WhereFamily \cup MixedFamily \cup OrderFamily
        \cup QuotedFamily

\* SELECT u.user_id FROM users u
CleanQuery ==
    Select(<<ColumnE("u", "user_id")>>, FromUsers, <<>>, NoWhere, NoGroup,
           NoHaving, FALSE)

\* SELECT username
NoFromQuery ==
    Select(<<ColumnE("", "username")>>, <<>>, <<>>, NoWhere, NoGroup,
           NoHaving, FALSE)

\* simple_query of src/查询结果.py without its select list and LIMIT:
\* users u LEFT JOIN usage_records ur USING(user_id)
\*         LEFT JOIN devices d USING(device_id)
ChainQuery ==
    Select(<<ColumnE("u", "user_id")>>, FromUsers,
           <<JoinE("usage_records", "ur", "LEFT", "using", <<>>,
                   <<"user_id">>),
             JoinE("devices", "d", "LEFT", "using", <<>>, <<"device_id">>)>>,
           NoWhere, NoGroup, NoHaving, FALSE)

\* SELECT u.user_id FROM users u JOIN usage_records ur
NoConditionQuery ==
    Select(<<ColumnE("u", "user_id")>>, FromUsers,
           <<JoinE("usage_records", "ur", "", "none", <<>>, <<>>)>>,
           NoWhere, NoGroup, NoHaving, FALSE)

\* SELECT u.user_id FROM users u WHERE username IS NULL
IsNullQuery ==
    Select(<<ColumnE("u", "user_id")>>, FromUsers, <<>>,
           [present |-> TRUE,
            conds |-> <<Binary(ColOperand("u", "username"), "IS",
                               NullOperand)>>],
           NoGroup, NoHaving, FALSE)

\* SELECT user_id AS uid, COUNT(*) FROM users u
AliasAggQuery ==
    Select(<<AliasE("uid", ColumnE("", "user_id")), AggE("", "")>>,
           FromUsers, <<>>, NoWhere, NoGroup, NoHaving, FALSE)

\* SELECT u.user_id, COUNT(*) FROM users u GROUP BY u.user_id
\* HAVING age > 0
HavingQuery ==
    Select(<<ColumnE("u", "user_id"), AggE("", "")>>, FromUsers, <<>>,
           NoWhere,
           [present |-> TRUE, expressions |-> <<Col("u", "user_id")>>],
           [present |-> TRUE, hasAgg |-> FALSE,
            columns |-> <<HavingCol("", "age", FALSE)>>], FALSE)

\* SELECT u.user_id FROM users u WHERE user_id = 'ab' AND username <> 5
TypeQuery ==
    Select(<<ColumnE("u", "user_id")>>, FromUsers, <<>>,
           [present |-> TRUE,
            conds |-> <<Binary(ColOperand("", "user_id"), "=",
                               LitOperand(TRUE, <<97, 98>>)),
                        Binary(ColOperand("", "username"), "<>",
                               LitOperand(FALSE, <<53>>))>>],
           NoGroup, NoHaving, FALSE)

\* The queries of a session of repeated calls.
SessionQueries ==
    BadQueries
    \cup {CleanQuery, NoFromQuery, ChainQuery, NoConditionQuery, IsNullQuery,
          AliasAggQuery, HavingQuery, TypeQuery}

\* The queries of a session of repeated calls that an observer watches.
ObservedQueries ==
    BadQueries
    \cup {CleanQuery, NoFromQuery, IsNullQuery, AliasAggQuery, HavingQuery,
          TypeQuery}

\* The queries of two concurrent callers.
ConcurrentQueries == {BadQuery("SELECT * FROM ("), CleanQuery, IsNullQuery}

(***************************************************************************)
(* The validator instance and its callers.                                 *)
(*   metadata  self.metadata, loaded by __init__, read-only afterwards     *)
(*   hashseed  the iteration orders the process's string hash seed has     *)
(*             given the sets iterated so far                              *)
(*   parsed    self.parsed, shared by all calls on the instance            *)
(*   pc        each caller's position in validate                          *)
(*   reads     the values of self.parsed each caller has read so far in    *)
(*             the rule it is in                                           *)
(*   query     each call's argument                                        *)
(*   result    each call's local result dict                               *)
(*   marks     len(result["errors"]) after each finished stage of a call   *)
(*   memo      one earlier call's (query, result), kept by an observer     *)
(* self.query is assigned by validate and never read; it is left out.      *)
(***************************************************************************)

Threads == {1, 2}

NoMemo == [set |-> FALSE, query |-> NoAst, result |-> NewResult]

Init ==
    /\ metadata \in Catalogs
    /\ hashseed = <<>>
    /\ parsed = NoAst
    /\ pc = [t \in Threads |-> "idle"]
    /\ reads = [t \in Threads |-> <<>>]
    /\ query = [t \in Threads |-> NoAst]
    /\ result = [t \in Threads |-> NewResult]
    /\ marks = [t \in Threads |-> <<>>]
    /\ memo = NoMemo

\* The end of one stage of validate: its result and the next position.
Advance(t, res, next) ==
    /\ result' = [result EXCEPT ![t] = res]
    /\ marks' = [marks EXCEPT ![t] = Append(@, Len(res.errors))]
    /\ pc' = [pc EXCEPT ![t] = next]

\* An AttributeError on self.parsed = None leaves validate.
Raise(t) ==
    /\ pc' = [pc EXCEPT ![t] = "raised"]
    /\ UNCHANGED <<result, marks>>

\* validate(q) is entered with some q of qs: self.query = query;
\* result = {...}.
Call(t, qs) ==
    /\ pc[t] \in {"idle", "returned", "raised"}
    /\ \E q \in qs : query' = [query EXCEPT ![t] = q]
    /\ result' = [result EXCEPT ![t] = NewResult]
    /\ marks' = [marks EXCEPT ![t] = <<>>]
    /\ pc' = [pc EXCEPT ![t] = "parse"]
    /\ UNCHANGED <<metadata, hashseed, parsed, reads, memo>>

\* try: self.parsed = sqlglot.parse_one(query) except ParseError: ...
\* On a parse error self.parsed keeps its previous value.
Parse(t) ==
    /\ pc[t] = "parse"
    /\ IF query[t].kind = "bad"
       THEN /\ Advance(t, AddError(result[t],
                                   Diag("SyntaxError", <<query[t].text>>)),
                       "select")
            /\ UNCHANGED parsed
       ELSE /\ parsed' = query[t]
            /\ Advance(t, result[t], "select")
    /\ UNCHANGED <<metadata, hashseed, reads, query, memo>>

\* The end of a rule whose reads of self.parsed gave rs, in the order of
\* the reads.

\* if isinstance(self.parsed, exp.Select) (line 68, rs[1]):
\* _validate_select_statement (lines 85, 93, 95, 99, 107: rs[2..6])
SelectEnd(t, rs) ==
    IF rs[1].kind = "select"
    THEN LET p == Grouped(rs[4], rs[5]) IN
         \E seed \in Seeded(hashseed, "select", p, select_iterated(p)) :
             /\ hashseed' = seed
             /\ Advance(t, AddErrors(result[t],
                                     SelectDiagsAt(rs[2], rs[3], p, rs[6],
                                                   seed)), "joins")
    ELSE /\ Advance(t, result[t], "joins")
         /\ UNCHANGED hashseed

\* result = self._validate_joins(result) (lines 133, 134): self.parsed.args
\* on None raises.
JoinsEnd(t, rs) ==
    /\ IF rs[1].kind = "none"
       THEN Raise(t)
       ELSE Advance(t, validate_joins(metadata, JoinsView(rs[1], rs[2]),
                                      result[t]), "where")
    /\ UNCHANGED hashseed

\* result = self._validate_where(result) (line 229)
WhereEnd(t, rs) ==
    /\ IF rs[1].kind = "none"
       THEN Raise(t)
       ELSE Advance(t, validate_where(metadata, rs[1], result[t]), "having")
    /\ UNCHANGED hashseed

\* result = self._validate_having(result) (lines 296, 300, 311)
HavingEnd(t, rs) ==
    /\ IF rs[1].kind = "none"
       THEN Raise(t)
       ELSE Advance(t, validate_having(HavingView(rs[1], rs[2], rs[3]),
                                       result[t]), "tables")
    /\ UNCHANGED hashseed

\* self._validate_tables_and_columns(result) (lines 359, 367, 375);
\* return result
TablesEnd(t, rs) ==
    IF rs[1].kind = "none"
    THEN Raise(t) /\ UNCHANGED hashseed
    ELSE LET pt == TablesView(rs[1], rs[2]) IN
         \E s1 \in Seeded(hashseed, "tables", pt, extract_tables(pt)) :
             \E seed \in Seeded(s1, "columns", rs[3],
                                extract_columns(rs[3])) :
                 /\ hashseed' = seed
                 /\ Advance(t, AddErrors(result[t],
                                         TablesColumnsDiagsAt(metadata, pt,
                                                              rs[3], seed)),
                            "returned")

\* The number of reads of self.parsed the rule at position pos makes, given
\* its reads so far rs, the first one at least.  The read of line 107 is
\* counted also when the and of that line stops before it: its value is
\* then not used.
Needed(pos, rs) ==
    IF pos = "select" THEN (IF rs[1].kind = "select" THEN 6 ELSE 1)
    ELSE IF pos = "where" \/ rs[1].kind = "none" THEN 1
    ELSE IF pos = "joins" THEN 2
    ELSE IF pos = "having" THEN (IF rs[1].having.present THEN 3 ELSE 1)
    ELSE 3

\* The reads rs of a rule that returned before its later reads, filled up
\* with its last read.
Padded(rs) == [i \in 1..6 |-> IF i <= Len(rs) THEN rs[i] ELSE rs[Len(rs)]]

\* One read of self.parsed by the rule caller t is in; the rule ends with
\* its last read.  Another caller's parse can come between two reads.
ReadStep(t, pos, rs) ==
    IF Len(rs) < Needed(pos, rs)
    THEN /\ reads' = [reads EXCEPT ![t] = rs]
         /\ UNCHANGED <<hashseed, pc, result, marks>>
    ELSE /\ reads' = [reads EXCEPT ![t] = <<>>]
         /\ IF pos = "select" THEN SelectEnd(t, Padded(rs))
            ELSE IF pos = "joins" THEN JoinsEnd(t, Padded(rs))
            ELSE IF pos = "where" THEN WhereEnd(t, Padded(rs))
            ELSE IF pos = "having" THEN HavingEnd(t, Padded(rs))
            ELSE TablesEnd(t, Padded(rs))

SelectStep(t) ==
    /\ pc[t] = "select"
    /\ ReadStep(t, "select", Append(reads[t], parsed))
    /\ UNCHANGED <<metadata, parsed, query, memo>>

JoinsStep(t) ==
    /\ pc[t] = "joins"
    /\ ReadStep(t, "joins", Append(reads[t], parsed))
    /\ UNCHANGED <<metadata, parsed, query, memo>>

WhereStep(t) ==
    /\ pc[t] = "where"
    /\ ReadStep(t, "where", Append(reads[t], parsed))
    /\ UNCHANGED <<metadata, parsed, query, memo>>

HavingStep(t) ==
    /\ pc[t] = "having"
    /\ ReadStep(t, "having", Append(reads[t], parsed))
    /\ UNCHANGED <<metadata, parsed, query, memo>>

\* if self.metadata: _validate_tables_and_columns; return result
TablesStep(t) ==
    /\ pc[t] = "tables"
    /\ IF metadata = <<>>
       THEN Advance(t, result[t], "returned") /\ UNCHANGED <<hashseed, reads>>
       ELSE ReadStep(t, "tables", Append(reads[t], parsed))
    /\ UNCHANGED <<metadata, parsed, query, memo>>

\* The reads of a rule that runs with no parse of another caller in
\* between: every read gives the same tree.
Whole(p) == [i \in 1..6 |-> p]

\* The rules of a call when no other caller is active: nothing writes
\* self.parsed between the reads of a rule, and the rule is one step.
SelectSolo(t) ==
    /\ pc[t] = "select"
    /\ SelectEnd(t, Whole(parsed))
    /\ UNCHANGED <<metadata, parsed, reads, query, memo>>

JoinsSolo(t) ==
    /\ pc[t] = "joins"
    /\ JoinsEnd(t, Whole(parsed))
    /\ UNCHANGED <<metadata, parsed, reads, query, memo>>

WhereSolo(t) ==
    /\ pc[t] = "where"
    /\ WhereEnd(t, Whole(parsed))
    /\ UNCHANGED <<metadata, parsed, reads, query, memo>>

HavingSolo(t) ==
    /\ pc[t] = "having"
    /\ HavingEnd(t, Whole(parsed))
    /\ UNCHANGED <<metadata, parsed, reads, query, memo>>

TablesSolo(t) ==
    /\ pc[t] = "tables"
    /\ IF metadata = <<>>
       THEN Advance(t, result[t], "returned") /\ UNCHANGED hashseed
       ELSE TablesEnd(t, Whole(parsed))
    /\ UNCHANGED <<metadata, parsed, reads, query, memo>>

\* The observer keeps the query and result of one returned call.
Record(t) ==
    /\ pc[t] = "returned"
    /\ ~memo.set
    /\ memo' = [set |-> TRUE, query |-> query[t], result |-> result[t]]
    /\ UNCHANGED <<metadata, hashseed, parsed, pc, reads, query, result,
                   marks>>

\* One step of a call among concurrent callers.
Step(t) ==
    \/ Parse(t)
    \/ SelectStep(t)
    \/ JoinsStep(t)
    \/ WhereStep(t)
    \/ HavingStep(t)
    \/ TablesStep(t)

\* One step of a call of a single caller.
Solo(t) ==
    \/ Parse(t)
    \/ SelectSolo(t)
    \/ JoinsSolo(t)
    \/ WhereSolo(t)
    \/ HavingSolo(t)
    \/ TablesSolo(t)

\* One caller, calls one after another, on one instance.
Next ==
    \/ Call(1, SessionQueries)
    \/ Solo(1)

Spec == Init /\ [][Next]_vars

\* Such a session with an observer that keeps one earlier call.
NextObserved ==
    \/ Call(1, ObservedQueries)
    \/ Solo(1)
    \/ Record(1)

SpecObserved == Init /\ [][NextObserved]_vars

\* A single call on a fresh instance, over all queries.
CallOnce == pc[1] = "idle" /\ Call(1, AllQueries)

NextOne ==
    \/ CallOnce
    \/ Solo(1)

SpecOne == Init /\ [][NextOne]_vars

\* Two callers on one instance, their parses and their reads of
\* self.parsed interleaved.
NextConcurrent ==
    \E t \in Threads :
        \/ Call(t, ConcurrentQueries)
        \/ Step(t)

SpecConcurrent == Init /\ [][NextConcurrent]_vars

\* validate(q) run alone on a fresh instance whose parse of q succeeds:
\* the rule methods applied in the order of validate.
ValidateAlone(md, seed, q) ==
    LET r1 == validate_select_statement(q, seed, NewResult)
        r2 == validate_joins(md, q, r1)
        r3 == validate_where(md, q, r2)
        r4 == validate_having(q, r3)
    IN  IF md = <<>> THEN r4
        ELSE validate_tables_and_columns(md, q, seed, r4)

(***************************************************************************)
(* Properties.                                                             *)
(***************************************************************************)

\* The number of diagnostics of one kind in a list.
Count(type, errs) == Cardinality({i \in DOMAIN errs : errs[i].type = type})

\* The diagnostics the k-th stage of the running call appended (1 parse,
\* 2 R1, 3 R2, 4 R3, 5 R4, 6 R5).
StageErrors(t, k) ==
    SubSeq(result[t].errors,
           (IF k = 1 THEN 0 ELSE marks[t][k - 1]) + 1, marks[t][k])

\* C1: validate on a text the parser rejects never raises past validate,
\* whatever calls came before, the first call on a fresh instance included.
C1_NeverRaises ==
    \A t \in Threads : query[t].kind = "bad" => pc[t] # "raised"

\* C2: when parsing fails the returned result holds exactly one diagnostic,
\* the SyntaxError, and nothing derived from an earlier query's AST.
C2_OnlySyntaxError ==
    \A t \in Threads :
        (pc[t] = "returned" /\ query[t].kind = "bad")
            => result[t].errors = <<Diag("SyntaxError", <<query[t].text>>)>>

\* C3: two calls with the same query text on one instance return identical
\* results, whatever calls were made before or between them.
C3_Idempotent ==
    \A t \in Threads :
        (pc[t] = "returned" /\ memo.set /\ memo.query = query[t])
            => result[t] = memo.result

\* C4: at every step of every call is_valid is false exactly when errors
\* is non-empty, and within a call a diagnostic once appended stays and
\* is_valid is never set back to true.
C4_ValidIffNoErrors ==
    /\ [](\A t \in Threads :
             result[t].is_valid <=> (result[t].errors = <<>>))
    /\ [][\A t \in Threads :
             (pc'[t] # "parse" /\ ~result[t].is_valid)
                 => /\ ~result'[t].is_valid
                    /\ Len(result'[t].errors) >= Len(result[t].errors)
                    /\ SubSeq(result'[t].errors, 1, Len(result[t].errors))
                           = result[t].errors]_vars

\* A call that has returned two or more diagnostics.
C4_Witness ==
    \E t \in Threads :
        /\ pc[t] = "returned"
        /\ ~result[t].is_valid
        /\ Len(result[t].errors) >= 2

(***************************************************************************)
(* The diagnostic conditions of rules R1-R5 as the specification words     *)
(* them, used to state which queries it calls free of semantic issues.     *)
(***************************************************************************)

\* The JoinTableSet of the k-th JOIN: the FROM tables and the tables of
\* JOINs 1..k.
JoinTableSet(q, k) ==
    base_tables(q)
    \o [i \in 1..k |->
           [name |-> q.joins[i].name, alias |-> alias_or_name(q.joins[i])]]

\* The number of tables of a table set whose column map has column c.
TablesWith(md, jt, c) ==
    Cardinality({i \in DOMAIN jt : HasColumn(md, jt[i].name, c)})

\* A select-list expression that is a column, with or without AS alias.
IsPlainColumn(e) ==
    e.cls = "Column" \/ (e.cls = "Alias" /\ e.inner = "Column")

SelectHasAggregate(q) ==
    \E i \in DOMAIN q.expressions : IsAggExpr(q.expressions[i])

SelectHasColumn(q) ==
    \E i \in DOMAIN q.expressions : IsPlainColumn(q.expressions[i])

GroupByComplete(q) ==
    {QName(e) : e \in {e \in Range(q.expressions) : IsPlainColumn(e)}}
        \subseteq {QName(c) : c \in Range(q.group.expressions)}

JoinConditionSound(md, q, k) ==
    LET j  == q.joins[k]
        jt == JoinTableSet(q, k)
    IN  /\ j.cond # "none"
        /\ j.cond = "using"
               => \A i \in DOMAIN j.using : TablesWith(md, jt, j.using[i]) >= 2
        /\ j.cond = "on"
               => \A i \in DOMAIN j.on :
                      LET rt == real_table(q, j.on[i].table) IN
                      /\ \E n \in DOMAIN jt : jt[n].name = rt
                      /\ HasColumn(md, rt, j.on[i].name)

IsNullComparison(c) ==
    /\ \/ c.right.cls = "Null"
       \/ (c.right.cls = "Identifier"
              /\ upper_is_null(c.right.this))
    /\ c.op \notin {"IS", "IS NOT"}

IsTypeMismatch(md, c) ==
    /\ c.left.cls = "Column"
    /\ c.right.cls = "Literal"
    /\ \/ /\ startswith(column_types(md, c.left.name), "integer")
          /\ c.right.is_string
          /\ ~isdigit(replace_first(c.right.this, 46))
       \/ /\ startswith(column_types(md, c.left.name), "character")
          /\ ~c.right.is_string

HavingExposed(q) ==
    LET exposed == UNION {Exposed(e) : e \in Range(q.expressions)} IN
    \A i \in DOMAIN q.having.columns :
        LET c == q.having.columns[i] IN
        c.inAgg \/ QName(c) \in exposed \/ c.name \in exposed

CatalogComplete(md, q) ==
    /\ md # <<>>
    /\ \A t \in extract_tables(q) : HasTable(md, t)
    /\ extract_columns(q) \subseteq all_columns(md)
    /\ \A k \in DOMAIN q.joins :
           Range(q.joins[k].using) \subseteq all_columns(md)

NoSemanticIssue(md, q) ==
    /\ q.kind = "select"
    /\ q.from # <<>>
    /\ ~(SelectHasAggregate(q) /\ SelectHasColumn(q) /\ ~q.group.present)
    /\ q.group.present => GroupByComplete(q)
    /\ \A k \in DOMAIN q.joins : JoinConditionSound(md, q, k)
    /\ \A i \in DOMAIN q.where.conds :
           /\ ~IsNullComparison(q.where.conds[i])
           /\ ~IsTypeMismatch(md, q.where.conds[i])
    /\ q.having.present
           => /\ q.group.present \/ q.having.hasAgg
              /\ HavingExposed(q)

\* C5: a parseable SELECT with none of the diagnostic conditions of R1-R5,
\* validated against a catalog holding every table and column it names,
\* returns is_valid = true and no diagnostics.  (Stated for the queries
\* that have an aggregate call in the select list if they have one at all.)
C5_RoundTrip ==
    (/\ pc[1] = "returned"
     /\ aggregates(query[1]) => SelectHasAggregate(query[1])
     /\ NoSemanticIssue(metadata, query[1])
     /\ CatalogComplete(metadata, query[1]))
        => (result[1].is_valid /\ result[1].errors = <<>>)

\* C6: a SELECT whose select list has an aggregate call and a non-aggregate
\* column, aliased or not, and that has no GROUP BY gets exactly one
\* MissingGroupBy diagnostic.  (Stated for the queries with a FROM clause.)
C6_MissingGroupByOnce ==
    (/\ pc[1] = "returned"
     /\ query[1].kind = "select"
     /\ query[1].from # <<>>
     /\ SelectHasAggregate(query[1])
     /\ SelectHasColumn(query[1])
     /\ ~query[1].group.present)
        => Count("MissingGroupBy", result[1].errors) = 1

\* C7: R3 reports one NullComparisonError for each WHERE comparison whose
\* right-hand side is NULL and whose operator is not IS / IS NOT, and none
\* for a comparison that uses IS or IS NOT.
C7_NullComparison ==
    (pc[1] = "returned" /\ query[1].kind = "select")
        => Count("NullComparisonError", StageErrors(1, 4))
               = Cardinality({i \in DOMAIN query[1].where.conds :
                                 IsNullComparison(query[1].where.conds[i])})

\* C8: a call that runs concurrently with another call on the same
\* instance returns the result it returns when run alone.
C8_Isolated ==
    \A t \in Threads :
        (pc[t] = "returned" /\ query[t].kind = "select")
            => result[t] = ValidateAlone(metadata, hashseed, query[t])

\* The query with a column-free ON condition given to every JOIN that has
\* neither ON nor USING.
C9_Conditioned(q) ==
    [q EXCEPT !.joins =
        [k \in DOMAIN q.joins |->
            IF q.joins[k].cond = "none"
            THEN [q.joins[k] EXCEPT !.cond = "on"]
            ELSE q.joins[k]]]

C10_DistinctUsing(q) ==
    /\ \A k1, k2 \in DOMAIN q.joins :
           \A i1 \in DOMAIN q.joins[k1].using,
              i2 \in DOMAIN q.joins[k2].using :
               q.joins[k1].using[i1] = q.joins[k2].using[i2]
                   => (k1 = k2 /\ i1 = i2)
    /\ LET all == JoinTableSet(q, Len(q.joins)) IN
       \A i1, i2 \in DOMAIN all : all[i1].name = all[i2].name => i1 = i2

\* C10: for JOIN ... USING(col), R2 reports JoinError and no ColumnNotFound
\* when col is in the column map of exactly one of the joined tables (the
\* FROM tables and the tables of the JOINs up to this one), ColumnNotFound
\* when it is in none, nothing when it is in two or more.
C10_UsingClassification ==
    (pc[1] = "returned" /\ query[1].kind = "select"
        /\ C10_DistinctUsing(query[1]))
        => \A k \in DOMAIN query[1].joins :
               \A i \in DOMAIN using_columns(query[1].joins[k]) :
                   LET col == query[1].joins[k].using[i]
                       n   == TablesWith(metadata,
                                         JoinTableSet(query[1], k), col)
                       seg == StageErrors(1, 3)
                       je  == \E d \in Range(seg) :
                                  /\ d.type = "JoinError"
                                  /\ d.message[1] = col
                       cnf == \E d \in Range(seg) :
                                  /\ d.type = "ColumnNotFound"
                                  /\ d.message[1] = "USING"
                                  /\ d.message[2] = col
                   IN  /\ n = 0 => (cnf /\ ~je)
                       /\ n = 1 => (je /\ ~cnf)
                       /\ n >= 2 => (~je /\ ~cnf)

(***************************************************************************)
(* The JOIN rule as the specification words it: every JOIN is checked      *)
(* against the FROM tables, the tables of the JOINs before it and its own. *)
(***************************************************************************)

\* The keys of the alias map: the alias of every FROM and JOIN table, or
\* its name when it has no alias.
AliasKeys(q) == {alias_entries(q)[i].alias : i \in DOMAIN alias_entries(q)}

\* The outcome for one ON column of the k-th JOIN.
OnOutcome(md, q, k, column) ==
    LET rt == real_table(q, column.table)
        jt == JoinTableSet(q, k)
    IN  IF \/ column.table \notin AliasKeys(q)
           \/ ~(\E n \in DOMAIN jt : jt[n].name = rt)
        THEN <<Diag("UnknownTableReference", <<column.table>>)>>
        ELSE IF ~HasColumn(md, rt, column.name)
        THEN <<Diag("ColumnNotFound", <<rt, column.name>>)>>
        ELSE <<>>

\* The outcomes for the ON columns of all JOINs, in source order.
OnOutcomes(md, q) ==
    Concat([k \in DOMAIN q.joins |->
               IF q.joins[k].cond = "on"
               THEN Concat([i \in DOMAIN q.joins[k].on |->
                               OnOutcome(md, q, k, q.joins[k].on[i])])
               ELSE <<>>])

\* A diagnostic of the ON sub-check.
IsOnDiag(d) ==
    \/ d.type = "UnknownTableReference"
    \/ (d.type = "ColumnNotFound" /\ d.message[1] # "USING")

\* C11: every column reference of a JOIN's ON clause gets exactly one
\* outcome in R2: UnknownTableReference when its qualifier does not resolve
\* through the alias map to a table taking part in that join (the FROM
\* tables and the tables of the JOINs up to it), else ColumnNotFound when
\* the resolved table's column map lacks the column, else nothing; the two
\* aliases of a self-join each resolve to the joined table.
C11_OnClassification ==
    (pc[1] = "returned" /\ query[1].kind = "select")
        => SelectSeq(StageErrors(1, 3), IsOnDiag)
               = OnOutcomes(metadata, query[1])

\* The names the whole select list exposes to HAVING.
SelectExposed(q) == UNION {Exposed(e) : e \in Range(q.expressions)}

\* A HAVING column reference outside aggregate calls whose qualified and
\* bare names are both absent from the select-exposed names.
IsIllegalHaving(q, c) ==
    /\ ~c.inAgg
    /\ QName(c) \notin SelectExposed(q)
    /\ c.name \notin SelectExposed(q)

\* C12: for every column reference of HAVING that is not an argument of an
\* aggregate call and whose qualified and bare names are both absent from
\* the select-exposed names, R4 reports an IllegalHavingColumn diagnostic
\* naming that column.
C12_IllegalHavingColumn ==
    (pc[1] = "returned" /\ query[1].kind = "select")
        => \A i \in DOMAIN query[1].having.columns :
               IsIllegalHaving(query[1], query[1].having.columns[i])
                   => \E d \in Range(StageErrors(1, 5)) :
                          /\ d.type = "IllegalHavingColumn"
                          /\ d.message = <<QName(query[1].having.columns[i])>>

\* The names of the non-aggregate columns of the select list, aliased or
\* not, that GROUP BY does not list.
MissingFromGroupBy(q) ==
    {QName(e) : e \in {e \in Range(q.expressions) : IsPlainColumn(e)}}
        \ {QName(c) : c \in Range(q.group.expressions)}

\* C13: with a GROUP BY clause, R1 reports IncompleteGroupBy exactly when
\* some non-aggregate select-list column name (table.column when qualified,
\* bare otherwise) is not among the GROUP BY column names written the same
\* way; it reports it once and the message lists exactly those columns.
\* Without GROUP BY it never reports it.
C13_IncompleteGroupBy ==
    (pc[1] = "returned" /\ query[1].kind = "select")
        => LET seg  == StageErrors(1, 2)
               miss == MissingFromGroupBy(query[1])
           IN  IF query[1].group.present /\ miss # {}
               THEN /\ Count("IncompleteGroupBy", seg) = 1
                    /\ \A d \in Range(seg) :
                           d.type = "IncompleteGroupBy"
                               => \E o \in Orders(miss) :
                                      d.message = o
               ELSE Count("IncompleteGroupBy", seg) = 0

\* A literal text made of the digits 0-9 with at most one decimal point.
NumericShaped(txt) ==
    /\ \A i \in DOMAIN txt : txt[i] \in (48..57) \cup {46}
    /\ \E i \in DOMAIN txt : txt[i] \in 48..57
    /\ Cardinality({i \in DOMAIN txt : txt[i] = 46}) <= 1

\* The declared types of a bare column name in the catalog flattened
\* across tables.
DeclaredTypes(md, n) ==
    UNION {{c.type : c \in {c \in Range(md[i].columns) : c.name = n}} :
              i \in DOMAIN md}

\* A literal operand: a string, a number or a signed number.
IsLiteral(o) == o.cls \in {"Literal", "Neg"}

\* The column and the literal of a comparison of a column with a literal,
\* whichever side each is on; <<>> for any other comparison.
ColumnAndLiteral(c) ==
    IF c.left.cls = "Column" /\ IsLiteral(c.right) THEN <<c.left, c.right>>
    ELSE IF IsLiteral(c.left) /\ c.right.cls = "Column"
    THEN <<c.right, c.left>>
    ELSE <<>>

\* A comparison of a column with a literal that the type rule rejects.
TypeRuleRejects(md, c) ==
    LET cl == ColumnAndLiteral(c) IN
    /\ cl # <<>>
    /\ \E ty \in DeclaredTypes(md, cl[1].name) :
           \/ ty[1] = "integer"
                  /\ cl[2].is_string /\ ~NumericShaped(cl[2].this)
           \/ ty[1] = "character" /\ ~cl[2].is_string

\* C14: R3 reports TypeMismatch for a WHERE comparison of a column with a
\* literal exactly when the column's declared type starts with integer and
\* the literal is a string that is not numeric-shaped, or the declared
\* type starts with character and the literal is not a string; never for
\* a column of another declared type or one absent from the catalog.
C14_TypeMismatch ==
    (pc[1] = "returned" /\ query[1].kind = "select")
        => LET conds == query[1].where.conds
               bad   == SelectSeq(conds,
                                  LAMBDA c : TypeRuleRejects(metadata, c))
               seg   == SelectSeq(StageErrors(1, 4),
                                  LAMBDA d : d.type = "TypeMismatch")
           IN  /\ Len(seg) = Len(bad)
               /\ \A i \in DOMAIN seg :
                      seg[i].message[2] = ColumnAndLiteral(bad[i])[1].name

\* The number of references to table name t in FROM and the JOINs.
TableReferences(q, t) ==
    Cardinality({i \in DOMAIN q.from : q.from[i].name = t})
        + Cardinality({k \in DOMAIN q.joins : q.joins[k].name = t})

JoinOutcome(md, q, k) ==
    LET j  == q.joins[k]
        jt == JoinTableSet(q, k)
    IN  IF j.cond = "none"
        THEN <<Diag("MissingJoinCondition", <<j.kind>>)>>
        ELSE IF j.cond = "using"
        THEN Concat([i \in DOMAIN j.using |-> UsingDiags(md, jt, j.using[i])])
        ELSE Concat([i \in DOMAIN j.on |-> OnDiags(md, q, jt, j.on[i])])

\* C16: the USING and ON columns of the k-th JOIN are checked against the
\* FROM tables plus the tables of JOINs 1..k-1 plus the k-th join's own
\* table, so that a USING column or ON qualifier of a table introduced by
\* an earlier JOIN is accepted in a later JOIN.
C16_JoinTableSet ==
    (pc[1] = "returned" /\ query[1].kind = "select")
        => StageErrors(1, 3)
               = Concat([k \in DOMAIN query[1].joins |->
                            JoinOutcome(metadata, query[1], k)])

\* C17: when the catalog holds no column map for any table of a query's
\* FROM and JOINs (as when no metadata was loaded), the USING and ON
\* column-existence sub-checks of R2 are skipped silently: R2 neither
\* raises nor adds a ColumnNotFound or JoinError diagnostic.
C17_SkippedWithoutMetadata ==
    (/\ pc[1] \in {"where", "having", "tables", "returned", "raised"}
     /\ query[1].kind = "select"
     /\ \A t \in Range(Names) :
            TableReferences(query[1], t) > 0 => ~HasTable(metadata, t))
        => /\ pc[1] # "raised"
           /\ \A d \in Range(StageErrors(1, 3)) :
                  d.type \notin {"ColumnNotFound", "JoinError"}

\* C18: for a parseable SELECT every rule R1..R5 runs whatever the earlier
\* rules reported (R5 only with a non-empty catalog), and the returned
\* errors are the rules' diagnostics concatenated in the order R1, R2, R3,
\* R4, R5.
C18_RuleOrder ==
    (pc[1] = "returned" /\ query[1].kind = "select")
        => /\ StageErrors(1, 1) = <<>>
           /\ StageErrors(1, 2) = SelectDiags(query[1], hashseed)
           /\ StageErrors(1, 3) = JoinsDiags(metadata, query[1])
           /\ StageErrors(1, 4) = WhereDiags(metadata, query[1])
           /\ StageErrors(1, 5) = HavingDiags(query[1])
           /\ StageErrors(1, 6)
                  = (IF metadata = <<>> THEN <<>>
                     ELSE TablesColumnsDiags(metadata, query[1], hashseed))
           /\ result[1].errors
                  = StageErrors(1, 2) \o StageErrors(1, 3)
                        \o StageErrors(1, 4) \o StageErrors(1, 5)
                        \o StageErrors(1, 6)

\* A returned call in which each of the five rules has reported.
C18_Witness ==
    /\ pc[1] = "returned"
    /\ query[1].kind = "select"
    /\ \A k \in 2..6 : StageErrors(1, k) # <<>>

\* C19: a HAVING column reference outside aggregate calls whose bare or
\* qualified name is exposed by some select-list expression, at whatever
\* position of the select list, gets no IllegalHavingColumn diagnostic.
C19_ExposedAnywhere ==
    (pc[1] = "returned" /\ query[1].kind = "select")
        => \A i \in DOMAIN query[1].having.columns :
               LET c == query[1].having.columns[i] IN
               (~c.inAgg /\ ~IsIllegalHaving(query[1], c))
                   => \A d \in Range(StageErrors(1, 5)) :
                          ~(/\ d.type = "IllegalHavingColumn"
                            /\ d.message = <<QName(c)>>)

\* C20: R1 reports MissingGroupBy only when the select list itself has an
\* aggregate call; a SELECT whose aggregate calls all lie outside the
\* select list (HAVING, a subquery of WHERE, ORDER BY) gets none.
C20_SelectListAggregate ==
    (/\ pc[1] = "returned"
     /\ query[1].kind = "select"
     /\ ~SelectHasAggregate(query[1]))
        => Count("MissingGroupBy", result[1].errors) = 0

\* C21: the number of IllegalHavingColumn diagnostics of a result is the
\* number of HAVING column references outside aggregate calls whose names
\* are absent from the select-exposed names: each such reference is
\* reported once, however many expressions the select list has.
C21_OncePerReference ==
    (pc[1] = "returned" /\ query[1].kind = "select")
        => Count("IllegalHavingColumn", result[1].errors)
               = Cardinality({i \in DOMAIN query[1].having.columns :
                                 IsIllegalHaving(query[1],
                                                 query[1].having.columns[i])})

====
